---------------------------- MODULE Spec2Model ----------------------------
(***************************************************************************)
(* Model of app.py: the start-up transform of the movie CSV into the       *)
(* expanded frame df, the tables country_genre and summary, and the        *)
(* genre-popup callback update_genre_popup driven by map clicks and the    *)
(* close button.                                                           *)
(*                                                                         *)
(* Text is a sequence of one-character strings, so that splitting and      *)
(* stripping are computed character by character.  A missing cell (NaN)    *)
(* is the one-element sequence <<"NaN">>, which no text equals because     *)
(* every element of a text is a single character.  Region codes and        *)
(* element ids are atomic strings.                                         *)
(***************************************************************************)
EXTENDS Integers, Sequences, FiniteSets, TLC

VARIABLES
    csv,            \* rows of tmdb_movies_countries.csv as read by read_csv
    pycountry_db,   \* what pycountry.countries.lookup answers, per name
    pc,             \* position of the process: start, loaded, ready, serving
    df,             \* the expanded frame (lines 21-30)
    country_genre,  \* groupby(country, genre).size() (line 57)
    summary,        \* per-country table with iso_alpha (lines 58-61)
    clickData,      \* property clickData of the choropleth graph
    popup_style,    \* property style of popup-container
    genre_popup,    \* property figure of the genre-popup graph
    last_event      \* history: the event the callback handled last

vars == <<csv, pycountry_db, pc, df, country_genre, summary,
          clickData, popup_style, genre_popup, last_event>>

-----------------------------------------------------------------------------
(* Bounds and program constants *)

MaxRows == 2

TopN == 10

-----------------------------------------------------------------------------
(* Values *)

NaN == <<"NaN">>

None == "None"

LookupError == "LookupError"

isna(x) == x = NaN

Whitespace == {" "}

Ord ==
    (" " :> 32) @@ ("'" :> 39) @@ ("," :> 44) @@ ("0" :> 48) @@ ("1" :> 49) @@ ("2" :> 50) @@
    ("3" :> 51) @@ ("4" :> 52) @@ ("5" :> 53) @@ ("6" :> 54) @@ ("7" :> 55) @@ ("8" :> 56) @@
    ("9" :> 57) @@ ("A" :> 65) @@ ("B" :> 66) @@ ("C" :> 67) @@ ("D" :> 68) @@ ("E" :> 69) @@
    ("F" :> 70) @@ ("G" :> 71) @@ ("H" :> 72) @@ ("I" :> 73) @@ ("J" :> 74) @@ ("K" :> 75) @@
    ("L" :> 76) @@ ("M" :> 77) @@ ("N" :> 78) @@ ("O" :> 79) @@ ("P" :> 80) @@ ("Q" :> 81) @@
    ("R" :> 82) @@ ("S" :> 83) @@ ("T" :> 84) @@ ("U" :> 85) @@ ("V" :> 86) @@ ("W" :> 87) @@
    ("X" :> 88) @@ ("Y" :> 89) @@ ("Z" :> 90) @@ ("a" :> 97) @@ ("b" :> 98) @@ ("c" :> 99) @@
    ("d" :> 100) @@ ("e" :> 101) @@ ("f" :> 102) @@ ("g" :> 103) @@ ("h" :> 104) @@ ("i" :> 105) @@
    ("j" :> 106) @@ ("k" :> 107) @@ ("l" :> 108) @@ ("m" :> 109) @@ ("n" :> 110) @@ ("o" :> 111) @@
    ("p" :> 112) @@ ("q" :> 113) @@ ("r" :> 114) @@ ("s" :> 115) @@ ("t" :> 116) @@ ("u" :> 117) @@
    ("v" :> 118) @@ ("w" :> 119) @@ ("x" :> 120) @@ ("y" :> 121) @@ ("z" :> 122)

manual_mapping ==
    (<<"U","n","i","t","e","d"," ","S","t","a","t","e","s">> :> "USA") @@
    (<<"U","n","i","t","e","d"," ","S","t","a","t","e","s"," ","o","f"," ","A","m","e","r","i","c","a">> :> "USA") @@
    (<<"U","n","i","t","e","d"," ","K","i","n","g","d","o","m">> :> "GBR") @@
    (<<"U","K">> :> "GBR") @@
    (<<"R","u","s","s","i","a">> :> "RUS") @@
    (<<"R","u","s","s","i","a","n"," ","F","e","d","e","r","a","t","i","o","n">> :> "RUS") @@
    (<<"S","o","u","t","h"," ","K","o","r","e","a">> :> "KOR") @@
    (<<"K","o","r","e","a",","," ","R","e","p","u","b","l","i","c"," ","o","f">> :> "KOR") @@
    (<<"N","o","r","t","h"," ","K","o","r","e","a">> :> "PRK") @@
    (<<"K","o","r","e","a",","," ","D","e","m","o","c","r","a","t","i","c"," ","P","e","o","p","l","e","'","s"," ","R","e","p","u","b","l","i","c"," ","o","f">> :> "PRK") @@
    (<<"C","z","e","c","h"," ","R","e","p","u","b","l","i","c">> :> "CZE") @@
    (<<"C","z","e","c","h","i","a">> :> "CZE") @@
    (<<"I","r","a","n">> :> "IRN") @@
    (<<"I","r","a","n",","," ","I","s","l","a","m","i","c"," ","R","e","p","u","b","l","i","c"," ","o","f">> :> "IRN") @@
    (<<"V","e","n","e","z","u","e","l","a">> :> "VEN") @@
    (<<"V","e","n","e","z","u","e","l","a",","," ","B","o","l","i","v","a","r","i","a","n"," ","R","e","p","u","b","l","i","c"," ","o","f">> :> "VEN") @@
    (<<"B","o","l","i","v","i","a">> :> "BOL") @@
    (<<"B","o","l","i","v","i","a",","," ","P","l","u","r","i","n","a","t","i","o","n","a","l"," ","S","t","a","t","e"," ","o","f">> :> "BOL") @@
    (<<"T","a","i","w","a","n">> :> "TWN") @@
    (<<"T","a","i","w","a","n",","," ","P","r","o","v","i","n","c","e"," ","o","f"," ","C","h","i","n","a">> :> "TWN") @@
    (<<"M","o","l","d","o","v","a">> :> "MDA") @@
    (<<"M","o","l","d","o","v","a",","," ","R","e","p","u","b","l","i","c"," ","o","f">> :> "MDA") @@
    (<<"V","i","e","t","n","a","m">> :> "VNM") @@
    (<<"V","i","e","t"," ","N","a","m">> :> "VNM") @@
    (<<"M","a","c","e","d","o","n","i","a">> :> "MKD") @@
    (<<"N","o","r","t","h"," ","M","a","c","e","d","o","n","i","a">> :> "MKD") @@
    (<<"T","h","e"," ","F","o","r","m","e","r"," ","Y","u","g","o","s","l","a","v"," ","R","e","p","u","b","l","i","c"," ","o","f"," ","M","a","c","e","d","o","n","i","a">> :> "MKD")

-----------------------------------------------------------------------------
(* Text helpers: str.strip, str.split(',\s*'), string ordering *)

RECURSIVE lstrip(_)
lstrip(s) ==
    IF s # <<>> /\ Head(s) \in Whitespace THEN lstrip(Tail(s)) ELSE s

RECURSIVE rstrip(_)
rstrip(s) ==
    IF s # <<>> /\ s[Len(s)] \in Whitespace
    THEN rstrip(SubSeq(s, 1, Len(s) - 1))
    ELSE s

strip(s) == rstrip(lstrip(s))

\* Series.str.strip(): a missing value stays missing
str_strip(x) == IF isna(x) THEN NaN ELSE strip(x)

\* re.split(',\s*', s): the leftmost comma, with all the whitespace that
\* follows it, ends the first token; the rest is split the same way, and the
\* text after the last separator is a token too
RECURSIVE re_split(_)
re_split(s) ==
    LET commas == {i \in 1..Len(s) : s[i] = ","}
    IN  IF commas = {} THEN <<s>>
        ELSE LET i == CHOOSE c \in commas : \A d \in commas : c <= d
             IN  <<SubSeq(s, 1, i - 1)>>
                    \o re_split(lstrip(SubSeq(s, i + 1, Len(s))))

\* Series.str.split(',\s*') followed by explode: a missing cell stays
\* missing through split and explodes to a single missing element
str_split(x) == IF isna(x) THEN <<NaN>> ELSE re_split(x)

\* Python's ordering of str: by code point, a proper prefix first
RECURSIVE StrLess(_, _)
StrLess(a, b) ==
    IF b = <<>> THEN FALSE
    ELSE IF a = <<>> THEN TRUE
    ELSE IF Head(a) = Head(b) THEN StrLess(Tail(a), Tail(b))
    ELSE Ord[Head(a)] < Ord[Head(b)]

\* the keys of a groupby, in sorted order (sort=True)
RECURSIVE SortedKeys(_)
SortedKeys(S) ==
    IF S = {} THEN <<>>
    ELSE LET m == CHOOSE x \in S : \A y \in S \ {x} : StrLess(x, y)
         IN  <<m>> \o SortedKeys(S \ {m})

RECURSIVE Flatten(_)
Flatten(ss) == IF ss = <<>> THEN <<>> ELSE Head(ss) \o Flatten(Tail(ss))

\* the members of a set of row positions in ascending order: selecting
\* rows by a boolean mask keeps the order of the rows
Ascending(S) ==
    [k \in 1..Cardinality(S) |->
        CHOOSE i \in S : Cardinality({j \in S : j < i}) = k - 1]

-----------------------------------------------------------------------------
(* Load and clean dataset, lines 21-30 *)

BadTitle == <<"I","P","L"," ","2","0","2","5">>

\* lines 22-24: the three row filters
keep_row(row) ==
    /\ row.title # BadTitle
    /\ ~isna(row.production_countries)
    /\ strip(row.production_countries) # <<>>

\* lines 26-30 for one row: split both fields, explode countries then
\* genres (the row's index label is kept), strip both columns; the records
\* come out country by country, and genre by genre within a country
explode_row(i, row) ==
    LET cs == str_split(row.production_countries)
        gs == str_split(row.genres)
    IN  [n \in 1..(Len(cs) * Len(gs)) |->
            [index |-> i,
             title |-> row.title,
             production_countries |-> str_strip(cs[((n - 1) \div Len(gs)) + 1]),
             genres |-> str_strip(gs[((n - 1) % Len(gs)) + 1])]]

load_and_clean(rows) ==
    LET kept == Ascending({i \in 1..Len(rows) : keep_row(rows[i])})
    IN  Flatten([k \in 1..Len(kept) |-> explode_row(kept[k], rows[kept[k]])])

-----------------------------------------------------------------------------
(* Country name -> ISO alpha-3, lines 33-55 *)

\* pycountry.countries.lookup(name).alpha_3, or LookupError raised
pycountry_lookup(country_name) ==
    IF country_name \in DOMAIN pycountry_db
    THEN pycountry_db[country_name]
    ELSE LookupError

\* variant: the standard lookup is asked first, the table only on failure
get_iso_alpha3_lookup_first(country_name) ==
    IF pycountry_lookup(country_name) # LookupError
    THEN pycountry_lookup(country_name)
    ELSE IF country_name \in DOMAIN manual_mapping
         THEN manual_mapping[country_name]
         ELSE None

get_iso_alpha3_enhanced(country_name) ==
    IF country_name \in DOMAIN manual_mapping
    THEN manual_mapping[country_name]
    ELSE IF pycountry_lookup(country_name) = LookupError
         THEN None
         ELSE pycountry_lookup(country_name)

-----------------------------------------------------------------------------
(* Aggregation, lines 57-61 *)

\* line 57: groups with a missing key are dropped, groups come out sorted
groupby_size(frame) ==
    LET ok(r) == ~isna(r.production_countries) /\ ~isna(r.genres)
        countries == SortedKeys({frame[i].production_countries :
                        i \in {j \in 1..Len(frame) : ok(frame[j])}})
        genresOf(c) == SortedKeys({frame[i].genres :
                        i \in {j \in 1..Len(frame) :
                            ok(frame[j]) /\ frame[j].production_countries = c}})
    IN  Flatten([ci \in 1..Len(countries) |->
            LET c == countries[ci] IN
            [gi \in 1..Len(genresOf(c)) |->
                LET g == genresOf(c)[gi] IN
                [production_countries |-> c,
                 genres |-> g,
                 count |-> Cardinality({i \in 1..Len(frame) :
                              /\ frame[i].production_countries = c
                              /\ frame[i].genres = g})]]])

\* line 58: agg(movie_count=('title', 'count')) counts the non-missing titles
groupby_movie_count(frame) ==
    LET countries == SortedKeys({frame[i].production_countries :
                        i \in {j \in 1..Len(frame) :
                            ~isna(frame[j].production_countries)}})
    IN  [ci \in 1..Len(countries) |->
            [production_countries |-> countries[ci],
             movie_count |-> Cardinality({i \in 1..Len(frame) :
                    /\ frame[i].production_countries = countries[ci]
                    /\ ~isna(frame[i].title)})]]

\* variant: line 60 (dropna) left out
build_summary_no_dropna(frame) ==
    LET grouped == groupby_movie_count(frame)
    IN  [i \in 1..Len(grouped) |->
            [production_countries |-> grouped[i].production_countries,
             movie_count |-> grouped[i].movie_count,
             iso_alpha |-> get_iso_alpha3_enhanced(
                              grouped[i].production_countries),
             log_movie_count |-> <<"log10", grouped[i].movie_count + 1>>]]

\* lines 59-61: resolve the code, drop the unresolved rows, add the log column
\* (np.log10 is kept symbolic: <<"log10", x>> stands for log10(x))
build_summary(frame) ==
    LET grouped == groupby_movie_count(frame)
        withIso == [i \in 1..Len(grouped) |->
                      [production_countries |-> grouped[i].production_countries,
                       movie_count |-> grouped[i].movie_count,
                       iso_alpha |-> get_iso_alpha3_enhanced(
                                        grouped[i].production_countries)]]
        keptIdx == Ascending({i \in 1..Len(withIso) : withIso[i].iso_alpha # None})
    IN  [k \in 1..Len(keptIdx) |->
            [production_countries |-> withIso[keptIdx[k]].production_countries,
             movie_count |-> withIso[keptIdx[k]].movie_count,
             iso_alpha |-> withIso[keptIdx[k]].iso_alpha,
             log_movie_count |-> <<"log10", withIso[keptIdx[k]].movie_count + 1>>]]

-----------------------------------------------------------------------------
(* Popup callback, lines 134-207 *)

\* a dict-valued property that is None
NoneDict == [None |-> TRUE]

is_none(d) == "None" \in DOMAIN d

\* the style popup-container is laid out with (lines 84-95), which is also
\* the default the callback falls back to (lines 145-156)
default_style ==
    [position |-> "absolute", top |-> "120px", right |-> "40px",
     width |-> "300px", backgroundColor |-> "white",
     boxShadow |-> "0 4px 8px rgba(0,0,0,0.2)", padding |-> "10px",
     borderRadius |-> "10px", display |-> "none", zIndex |-> 10]

\* px.bar(title=...) without data; a title is <<fixed text, country>>
px_bar(title) == [title |-> title, data |-> <<>>]

\* variant: prop_id compared with == 'close-button', which the
\* "<id>.<property>" form never equals
triggered_by_close_exact(triggered) ==
    triggered # <<>> /\ triggered[1].prop_id.prop = ""

\* line 158: ctx.triggered[0]['prop_id'].startswith('close-button');
\* a prop_id is "<component id>.<property>"
triggered_by_close(triggered) ==
    triggered # <<>> /\ triggered[1].prop_id.id = "close-button"

\* lines 159-161, 164-166 and 172-174
hide_popup(current_style) ==
    <<px_bar(<<"", <<>>>>), [current_style EXCEPT !.display = "none"]>>

\* line 163
no_click(click) ==
    \/ is_none(click)
    \/ DOMAIN click = {}
    \/ "points" \notin DOMAIN click
    \/ click.points = <<>>

\* variant: no matching row does not raise, the country is left empty
resolve_country_no_raise(click) ==
    IF "location" \notin DOMAIN click.points[1]
    THEN [raised |-> FALSE, country |-> <<>>]
    ELSE LET iso == click.points[1].location
             rows == Ascending({i \in 1..Len(summary) :
                                    summary[i].iso_alpha = iso})
         IN  IF rows = <<>>
             THEN [raised |-> FALSE, country |-> <<>>]
             ELSE [raised |-> FALSE,
                   country |-> summary[rows[1]].production_countries]

\* variant: .values[-1], the last matching row
resolve_country_last(click) ==
    IF "location" \notin DOMAIN click.points[1]
    THEN [raised |-> TRUE, country |-> <<>>]
    ELSE LET iso == click.points[1].location
             rows == Ascending({i \in 1..Len(summary) :
                                    summary[i].iso_alpha = iso})
         IN  IF rows = <<>>
             THEN [raised |-> TRUE, country |-> <<>>]
             ELSE [raised |-> FALSE,
                   country |-> summary[rows[Len(rows)]].production_countries]

\* lines 168-174: the try block; raised stands for the KeyError of a point
\* without location and the IndexError of .values[0] on no matching row
resolve_country(click) ==
    IF "location" \notin DOMAIN click.points[1]
    THEN [raised |-> TRUE, country |-> <<>>]
    ELSE LET iso == click.points[1].location
             rows == Ascending({i \in 1..Len(summary) :
                                    summary[i].iso_alpha = iso})
         IN  IF rows = <<>>
             THEN [raised |-> TRUE, country |-> <<>>]
             ELSE [raised |-> FALSE,
                   country |-> summary[rows[1]].production_countries]

\* line 181: sort_values(by='count', ascending=False) with the default
\* kind='quicksort', which is not a stable sort: rows of equal count may come
\* out in any order.  The set of all orders the sort may produce.
RECURSIVE sort_values(_)
sort_values(rows) ==
    IF rows = {} THEN {<<>>}
    ELSE LET top == {r \in rows : \A q \in rows : q.count <= r.count}
         IN  UNION {{<<r>> \o rest : rest \in sort_values(rows \ {r})} : r \in top}

\* variant: one row short
head_short(frame, n) ==
    SubSeq(frame, 1, IF Len(frame) < n - 1 THEN Len(frame) ELSE n - 1)

\* line 182
head(frame, n) == SubSeq(frame, 1, IF Len(frame) < n THEN Len(frame) ELSE n)

RECURSIVE Sum(_, _)
Sum(frame, i) == IF i = 0 THEN 0 ELSE frame[i].count + Sum(frame, i - 1)

\* lines 177-180: the rows of one country, grouped by genre with the counts
\* summed, in sorted genre order
genre_groups(country) ==
    LET idx == Ascending({i \in 1..Len(country_genre) :
                   country_genre[i].production_countries = country})
        sel == [k \in 1..Len(idx) |-> country_genre[idx[k]]]
        genres == SortedKeys({sel[k].genres : k \in 1..Len(sel)})
    IN  [gi \in 1..Len(genres) |->
            LET same == Ascending({k \in 1..Len(sel) :
                                    sel[k].genres = genres[gi]})
            IN  [genres |-> genres[gi],
                 count |-> Sum([k \in 1..Len(same) |-> sel[same[k]]], Len(same))]]

\* lines 176-183: every frame genre_data may be
genre_data(country) ==
    LET grouped == genre_groups(country)
    IN  {head(sorted, TopN) :
            sorted \in sort_values({grouped[k] : k \in 1..Len(grouped)})}

\* lines 185-195
make_figure(country, data) ==
    IF data = <<>>
    THEN px_bar(<<"No data available for ", country>>)
    ELSE [title |-> <<"Top Genres in ", country>>, data |-> data]

\* variant: an empty genre_data hides the popup
update_genre_popup_hide_empty(triggered, click, current_style_in) ==
    LET current_style == IF is_none(current_style_in)
                         THEN default_style ELSE current_style_in
    IN  IF triggered_by_close(triggered) THEN {hide_popup(current_style)}
        ELSE IF no_click(click) THEN {hide_popup(current_style)}
        ELSE LET r == resolve_country(click)
             IN  IF r.raised THEN {hide_popup(current_style)}
                 ELSE {IF d = <<>> THEN hide_popup(current_style)
                       ELSE <<make_figure(r.country, d),
                              [current_style EXCEPT !.display = "block"]>> :
                            d \in genre_data(r.country)}

\* the callback: the set of <<figure, style>> pairs it may return
update_genre_popup(triggered, click, current_style_in) ==
    LET current_style == IF is_none(current_style_in)
                         THEN default_style ELSE current_style_in
    IN  IF triggered_by_close(triggered) THEN {hide_popup(current_style)}
        ELSE IF no_click(click) THEN {hide_popup(current_style)}
        ELSE LET r == resolve_country(click)
             IN  IF r.raised THEN {hide_popup(current_style)}
                 ELSE {<<make_figure(r.country, d),
                         [current_style EXCEPT !.display = "block"]>> :
                            d \in genre_data(r.country)}

-----------------------------------------------------------------------------
(* Inputs *)

Txt_UK == <<"U","K">>
Txt_GB == <<"G","B">>
Txt_ZZ == <<"Z","Z">>
Txt_A == <<"A">>

RECURSIVE Repeat(_, _)
Repeat(s, n) == IF n = 0 THEN <<>> ELSE s \o Repeat(s, n - 1)

\* a genres field naming eleven genres a..k: a and b once, c twice, d three
\* times, ..., k ten times
ManyGenres ==
    <<"a", ",", "b">> \o Repeat(<<",", "c">>, 2) \o Repeat(<<",", "d">>, 3)
      \o Repeat(<<",", "e">>, 4) \o Repeat(<<",", "f">>, 5)
      \o Repeat(<<",", "g">>, 6) \o Repeat(<<",", "h">>, 7)
      \o Repeat(<<",", "i">>, 8) \o Repeat(<<",", "j">>, 9)
      \o Repeat(<<",", "k">>, 10)

Row(t, c, g) == [title |-> t, production_countries |-> c, genres |-> g]

\* the rows a CSV file is made of
RowPool ==
    { Row(Txt_A, Txt_UK, <<"a", ",", " ", "b">>),
      Row(Txt_A, Txt_UK, ManyGenres),
      Row(Txt_A, <<"U","K",","," ","G","B">>, <<"b">>),
      Row(NaN, Txt_GB, <<"a">>),
      Row(Txt_A, Txt_ZZ, <<"a", ",", "b">>),
      Row(Txt_A, <<"U","K",",",",","Z","Z">>, <<"a">>),
      Row(Txt_A, Txt_GB, NaN),
      Row(BadTitle, Txt_UK, <<"a">>),
      Row(Txt_A, NaN, <<"a">>),
      Row(Txt_A, <<" ">>, <<"a">>),
      Row(Txt_A, <<" ","U","K"," ",",","G","B">>, <<" ","a"," ",",","b"," ">>),
      Row(Txt_A, <<"U","n","i","t","e","d"," ","K","i","n","g","d","o","m">>,
          <<"b", ",", "a">>) }

\* the names the standard lookup is asked about, and what it may answer
StdNames == {Txt_UK, Txt_GB}

StdAnswers == {"GBR", "UKR", LookupError}

\* the region codes a click may carry
ClickCodes == {"GBR", "UKR", "ZZZ"}

ClickPayloads ==
    {<<>>, [other |-> TRUE], [points |-> <<>>],
     [points |-> <<[curveNumber |-> 0]>>]}
    \cup {[points |-> <<[location |-> c]>>] : c \in ClickCodes}

-----------------------------------------------------------------------------
(* The state machine *)

Init ==
    /\ csv \in UNION {[1..n -> RowPool] : n \in 1..MaxRows}
    /\ pycountry_db \in [StdNames -> StdAnswers]
    /\ pc = "start"
    /\ df = <<>>
    /\ country_genre = <<>>
    /\ summary = <<>>
    /\ clickData = NoneDict
    /\ popup_style = default_style
    /\ genre_popup = px_bar(<<"", <<>>>>)
    /\ last_event = "none"

\* lines 21-30
LoadAndClean ==
    /\ pc = "start"
    /\ df' = load_and_clean(csv)
    /\ pc' = "loaded"
    /\ UNCHANGED <<csv, pycountry_db, country_genre, summary,
                   clickData, popup_style, genre_popup, last_event>>

\* lines 57-61
Aggregate ==
    /\ pc = "loaded"
    /\ country_genre' = groupby_size(df)
    /\ summary' = build_summary(df)
    /\ pc' = "ready"
    /\ UNCHANGED <<csv, pycountry_db, df,
                   clickData, popup_style, genre_popup, last_event>>

\* the call the framework makes when the page loads: nothing triggered
InitialCall ==
    /\ pc = "ready"
    /\ \E out \in update_genre_popup(<<>>, clickData, popup_style) :
          /\ genre_popup' = out[1]
          /\ popup_style' = out[2]
    /\ pc' = "serving"
    /\ last_event' = "initial"
    /\ UNCHANGED <<csv, pycountry_db, df, country_genre, summary, clickData>>

\* a click on the map: clickData changes and triggers the callback
Select ==
    /\ pc = "serving"
    /\ \E click \in ClickPayloads :
          /\ clickData' = click
          /\ \E out \in update_genre_popup(
                    <<[prop_id |-> [id |-> "choropleth", prop |-> "clickData"]]>>,
                    click, popup_style) :
                /\ genre_popup' = out[1]
                /\ popup_style' = out[2]
    /\ last_event' = "select"
    /\ UNCHANGED <<csv, pycountry_db, pc, df, country_genre, summary>>

\* a click on the close button: n_clicks changes and triggers the callback,
\* clickData still holds the last click
Close ==
    /\ pc = "serving"
    /\ \E out \in update_genre_popup(
                <<[prop_id |-> [id |-> "close-button", prop |-> "n_clicks"]]>>,
                clickData, popup_style) :
          /\ genre_popup' = out[1]
          /\ popup_style' = out[2]
    /\ last_event' = "close"
    /\ UNCHANGED <<csv, pycountry_db, pc, df, country_genre, summary, clickData>>

Next == LoadAndClean \/ Aggregate \/ InitialCall \/ Select \/ Close

Spec == Init /\ [][Next]_vars

-----------------------------------------------------------------------------
(* Properties *)

Built == pc \in {"ready", "serving"}

Countries(frame) == {frame[i].production_countries : i \in 1..Len(frame)}

\* the number of expanded records of a country
RecordsOf(c) ==
    Cardinality({i \in 1..Len(df) : df[i].production_countries = c})

\* the number of expanded records of a (country, genre) pair
RecordsOfPair(c, g) ==
    Cardinality({i \in 1..Len(df) :
        df[i].production_countries = c /\ df[i].genres = g})

SummaryRows(c) == {k \in 1..Len(summary) : summary[k].production_countries = c}

GenreRows(c) ==
    {k \in 1..Len(country_genre) : country_genre[k].production_countries = c}

HasLocation(click) ==
    /\ ~no_click(click)
    /\ "location" \in DOMAIN click.points[1]

\* the click carries a region code that some row of summary has
KnownClick(click) ==
    /\ HasLocation(click)
    /\ \E k \in 1..Len(summary) : summary[k].iso_alpha = click.points[1].location

RowsWithCode(iso) == {k \in 1..Len(summary) : summary[k].iso_alpha = iso}

\* the country of the first row of summary that has the code
FirstCountry(iso) ==
    summary[CHOOSE k \in RowsWithCode(iso) :
                \A j \in RowsWithCode(iso) : k <= j].production_countries

Visible == popup_style.display = "block"

top_genres == genre_popup.data

popup_country == genre_popup.title[2]

SelectedKnown == last_event = "select" /\ KnownClick(clickData)

Smaller(a, b) == IF a < b THEN a ELSE b

\* C1: after close(), whatever select and close events came before and
\* whatever click data is still held, the popup is hidden and its figure empty.
C1_CloseHides ==
    last_event = "close" =>
        /\ ~Visible
        /\ popup_style.display = "none"
        /\ top_genres = <<>>

C1_Witness ==
    /\ last_event = "close"
    /\ KnownClick(clickData)
    /\ GenreRows(FirstCountry(clickData.points[1].location)) # {}

\* C2: a select whose payload is missing, empty or carries a region code that
\* no row of summary has hides the popup and empties the figure, and returns
\* exactly what a close would return from the same prior state.
C2_UnknownSelectHides ==
    [][(last_event' = "select" /\ ~KnownClick(clickData')) =>
          /\ popup_style'.display = "none"
          /\ genre_popup' = px_bar(<<"", <<>>>>)
          /\ update_genre_popup(
                <<[prop_id |-> [id |-> "close-button", prop |-> "n_clicks"]]>>,
                clickData', popup_style) = {<<genre_popup', popup_style'>>}]_vars

C2_Witness ==
    /\ last_event = "select"
    /\ HasLocation(clickData)
    /\ ~KnownClick(clickData)
    /\ summary # <<>>

\* C3: a select of a region code that summary has shows the popup with
\* min(10, n) entries, n the number of distinct genres of the resolved country
\* in country_genre; the entries are rows of that country, in non-increasing
\* order of count, and no omitted genre has a larger count than an included one.
C3_TopGenres ==
    SelectedKnown =>
        LET rows == {country_genre[k] : k \in GenreRows(popup_country)}
            n == Cardinality({r.genres : r \in rows})
            shown == {top_genres[i].genres : i \in 1..Len(top_genres)}
        IN  /\ Visible
            /\ \E k \in SummaryRows(popup_country) :
                  summary[k].iso_alpha = clickData.points[1].location
            /\ Len(top_genres) = Smaller(TopN, n)
            /\ Cardinality(shown) = Len(top_genres)
            /\ \A i \in 1..Len(top_genres) :
                  \E r \in rows : /\ r.genres = top_genres[i].genres
                                  /\ r.count = top_genres[i].count
            /\ \A i, j \in 1..Len(top_genres) :
                  i < j => top_genres[i].count >= top_genres[j].count
            /\ \A r \in rows : r.genres \notin shown =>
                  \A i \in 1..Len(top_genres) : r.count <= top_genres[i].count

C3_Witness ==
    /\ SelectedKnown
    /\ Cardinality(GenreRows(popup_country)) > TopN
    /\ Len(top_genres) = TopN

\* C4: every raw row that passes the filters, with k country tokens and m
\* genre tokens, yields exactly k*m expanded records, each with a trimmed
\* and non-empty country and genre.
C4_ExpandedNonEmpty ==
    pc = "loaded" =>
        \A i \in 1..Len(csv) :
            (keep_row(csv[i]) /\ ~isna(csv[i].genres)) =>
                LET k == Len(re_split(csv[i].production_countries))
                    m == Len(re_split(csv[i].genres))
                    recs == {j \in 1..Len(df) : df[j].index = i}
                IN  /\ Cardinality(recs) = k * m
                    /\ \A j \in recs :
                          /\ df[j].production_countries # <<>>
                          /\ df[j].genres # <<>>
                          /\ strip(df[j].production_countries)
                                = df[j].production_countries
                          /\ strip(df[j].genres) = df[j].genres

\* C5: for every country of summary, movie_count is the number of expanded
\* records of that country, hence at least 1.
C5_MovieCountIsRecordCount ==
    pc = "ready" =>
        \A k \in 1..Len(summary) :
            /\ summary[k].movie_count = RecordsOf(summary[k].production_countries)
            /\ summary[k].movie_count >= 1

\* C6: a country that neither the alias table nor the standard lookup
\* resolves has no row in summary, every row of summary carries a region code,
\* and each of the country's (country, genre) groups is in country_genre
\* with the count of its expanded records.
Unresolvable(c) ==
    c \notin DOMAIN manual_mapping /\ pycountry_lookup(c) = LookupError

C6_UnresolvedDropped ==
    pc = "ready" =>
        /\ \A k \in 1..Len(summary) :
              summary[k].iso_alpha \notin {None, LookupError}
        /\ \A c \in Countries(df) : Unresolvable(c) =>
              /\ SummaryRows(c) = {}
              /\ \A g \in {df[i].genres : i \in 1..Len(df)} :
                    (~isna(g) /\ RecordsOfPair(c, g) > 0) =>
                        \E k \in GenreRows(c) :
                            /\ country_genre[k].genres = g
                            /\ country_genre[k].count = RecordsOfPair(c, g)

C6_Witness ==
    /\ pc = "ready"
    /\ \E c \in Countries(df) :
          /\ Unresolvable(c)
          /\ GenreRows(c) # {}
    /\ summary # <<>>

\* C7: a country named in the alias table gets the table's code whatever the
\* standard lookup answers for it; the standard lookup decides only for the
\* names the table does not have.
C7_AliasPrecedence ==
    pc = "ready" =>
        \A c \in Countries(df) :
            IF c \in DOMAIN manual_mapping
            THEN \E k \in SummaryRows(c) :
                    summary[k].iso_alpha = manual_mapping[c]
            ELSE IF pycountry_lookup(c) = LookupError
                 THEN SummaryRows(c) = {}
                 ELSE \E k \in SummaryRows(c) :
                        summary[k].iso_alpha = pycountry_lookup(c)

C7_Witness ==
    /\ pc = "ready"
    /\ \E k \in 1..Len(summary) :
          LET c == summary[k].production_countries
          IN  /\ c \in DOMAIN manual_mapping
              /\ pycountry_lookup(c) \notin {LookupError, manual_mapping[c]}
              /\ summary[k].iso_alpha = manual_mapping[c]
    /\ \E k \in 1..Len(summary) :
          summary[k].production_countries \notin DOMAIN manual_mapping

\* C8: in top_genres two genres of equal count keep the relative order of
\* the grouped table (sorted by genre), and that order decides which of the
\* tied genres survive the cut at 10.
C8_StableTies ==
    SelectedKnown =>
        LET rows == {country_genre[k] : k \in GenreRows(popup_country)}
            shown == {top_genres[i].genres : i \in 1..Len(top_genres)}
        IN  /\ \A i, j \in 1..Len(top_genres) :
                  (i < j /\ top_genres[i].count = top_genres[j].count) =>
                      StrLess(top_genres[i].genres, top_genres[j].genres)
            /\ \A r \in rows : r.genres \notin shown =>
                  \A i \in 1..Len(top_genres) :
                      top_genres[i].count = r.count =>
                          StrLess(top_genres[i].genres, r.genres)

\* C9: a select of a region code that summary has, whose resolved country has
\* no row in country_genre, shows the popup with the country set and no
\* entries.
C9_EmptyStillVisible ==
    (SelectedKnown
       /\ GenreRows(FirstCountry(clickData.points[1].location)) = {}) =>
        /\ Visible
        /\ popup_country = FirstCountry(clickData.points[1].location)
        /\ top_genres = <<>>

C9_Witness ==
    /\ SelectedKnown
    /\ GenreRows(FirstCountry(clickData.points[1].location)) = {}
    /\ RecordsOf(FirstCountry(clickData.points[1].location)) > 0

\* C10: when several countries of summary share the clicked region code, the
\* popup is for the first of them in summary order, and every entry counts
\* the expanded records of that one country only.
C10_FirstCountryOnly ==
    SelectedKnown =>
        LET c == FirstCountry(clickData.points[1].location)
        IN  /\ popup_country = c
            /\ \A i \in 1..Len(top_genres) :
                  top_genres[i].count = RecordsOfPair(c, top_genres[i].genres)

C10_Witness ==
    /\ SelectedKnown
    /\ top_genres # <<>>
    /\ \E j, k \in RowsWithCode(clickData.points[1].location) :
          /\ j < k
          /\ \E g \in GenreRows(summary[k].production_countries) :
                \E i \in 1..Len(top_genres) :
                    top_genres[i].genres = country_genre[g].genres

=============================================================================
